---- MODULE Spec2Model ----
(***************************************************************************)
(* Model of the mushroom-foraging backend (src/main.py): the weather     *)
(* check (GET /check, check_conditions, and the helpers it calls), and    *)
(* the accounts, tokens, journal, forum and admin endpoints over the      *)
(* tables users, journal_entries and forum_posts.                         *)
(*                                                                         *)
(* Specifications.  Spec and SpecConc run check_conditions for one and    *)
(* for several calls.  SpecAuth serves the account endpoints at one       *)
(* instant, SpecTokens lets time pass over the tokens, SpecJournal serves *)
(* the journal to three users, SpecAdmin the admin endpoints, and         *)
(* SpecGuard every guarded endpoint with every kind of credential.        *)
(*                                                                         *)
(* Numbers.  Every reading and every literal of the source is carried as  *)
(* an integer number of tenths (19 is Lit(19) = 190, 0.1 is Dec(0, 1) =   *)
(* 1).  An average is the exact rational n/d of tenths, d > 0; comparisons *)
(* against literals are done by cross-multiplication, so no precision is  *)
(* lost.  Floating-point rounding of the mean is not modelled.            *)
(*                                                                         *)
(* Optional values.  A JSON null / Python None is the empty sequence       *)
(* None == <<>>, a present value v is Some(v) == <<v>>.                    *)
(***************************************************************************)
EXTENDS Integers, Sequences, FiniteSets, TLC

VARIABLES
    upstream,           \* per call: what the three weather services answer
    MUSHROOM_PROFILES,  \* the module-level profile table (shared by all calls)
    frame,              \* per call: program counter and local variables
    requests,           \* per call: the HTTP requests sent so far
    response,           \* per call: the HTTP response of check_conditions
    users,              \* table users: the rows in id order (id = position)
    journal_entries,    \* table journal_entries: a set of rows
    journal_seq,        \* the last id given to a journal entry (AUTOINCREMENT)
    forum_posts,        \* table forum_posts: the rows in id order
    clock,              \* the wall clock, in ticks
    issued,             \* the access tokens that clients hold, with their time of issue
    last                \* the last request served and its answer

apiVars == <<users, journal_entries, journal_seq, forum_posts, clock, issued, last>>

vars == <<upstream, MUSHROOM_PROFILES, frame, requests, response, apiVars>>

---------------------------------------------------------------------------
(* Bounds of the model *)

MaxLen == 3         \* longest hourly array enumerated element by element
VariedDays == 2     \* rainfall days whose outcome is enumerated independently
NumCalls == 2       \* concurrent check_conditions calls in SpecConc
MaxTokens == 1      \* access tokens that clients hold at once
MaxEntries == 2     \* journal entries ever created
MaxPosts == 1       \* forum posts ever created

---------------------------------------------------------------------------
(* Values *)

None == <<>>
Some(v) == <<v>>

Lit(k) == 10 * k            \* the integer literal k, in tenths
Dec(k, t) == 10 * k + t     \* the decimal literal k.t, in tenths

Rat(n, d) == [n |-> n, d |-> d]
GE(a, k) == a.n >= k * a.d          \* a >= k
LE(a, k) == a.n <= k * a.d          \* a <= k
EQ(a, k) == a.n = k * a.d           \* a = k

RainDays == 7
WindowBack == 6

---------------------------------------------------------------------------
(* The profile table, in declaration order (a dict keeps insertion order) *)

Profile(name, t_min, t_max, h_min, r_min, r_max, w_max) ==
    [name |-> name, temp_range |-> <<Lit(t_min), Lit(t_max)>>,
     humidity_min |-> Lit(h_min), rain_min |-> r_min,
     rain_max |-> Lit(r_max), wind_max |-> Lit(w_max)]

ProfileTable ==
    << Profile("porcini",              12, 28, 70, Dec(0, 1), 80, 16),
       Profile("pine_rings",           10, 22, 65, Dec(0, 1), 80, 16),
       Profile("poplar_boletes",       10, 23, 60, Dec(0, 1), 35, 16),
       Profile("agaricus",             14, 26, 65, Dec(0, 8), 50, 11),
       Profile("white_parasols",       13, 28, 60, Lit(0),    30, 12),
       Profile("wood_blewits",          4,  8, 70, Lit(5),    50, 12),
       Profile("morels",               12, 21, 70, Lit(10),   50,  4),
       Profile("blushers",              8, 26, 60, Dec(0, 1), 35, 16),
       Profile("slippery_jills",        9, 24, 65, Dec(0, 5), 30, 15),
       Profile("weeping_bolete",        9, 23, 60, Dec(0, 5), 25, 15),
       Profile("bovine_bolete",         9, 22, 60, Dec(0, 5), 28, 15),
       Profile("chicken_of_the_woods", 23, 30, 70, Lit(10),   40, 10),
       Profile("termitomyces",         20, 32, 80, Lit(15),   50,  4) >>

---------------------------------------------------------------------------
(* average(values) *)

RECURSIVE sum(_)
sum(s) == IF s = <<>> THEN 0 ELSE Head(s)[1] + sum(Tail(s))

(* Variant: the divisor counts the null entries too *)
average_len_of_values(values) ==
    LET clean == SelectSeq(values, LAMBDA v : v # None)
    IN  IF clean # <<>> THEN Rat(sum(clean), Len(values)) ELSE Rat(0, 1)

average(values) ==
    LET clean == SelectSeq(values, LAMBDA v : v # None)
    IN  IF clean # <<>> THEN Rat(sum(clean), Len(clean)) ELSE Rat(0, 1)

---------------------------------------------------------------------------
(* The foraging-conditions chain and the profile test of check_conditions *)

(* Variant: the first temperature bound is exclusive *)
Quality_exclusive(avg_temp, avg_rain, avg_humidity, avg_wind) ==
    IF ~LE(avg_temp, Lit(19)) /\ LE(avg_rain, Lit(40))
         /\ GE(avg_humidity, Lit(90)) /\ LE(avg_wind, Lit(8))
    THEN "perfect"
    ELSE IF GE(avg_temp, Lit(15)) /\ LE(avg_rain, Lit(20))
              /\ GE(avg_humidity, Lit(70)) /\ LE(avg_wind, Lit(12))
    THEN "good"
    ELSE IF GE(avg_temp, Lit(12)) /\ LE(avg_rain, Lit(10))
              /\ GE(avg_humidity, Lit(60)) /\ LE(avg_wind, Lit(15))
    THEN "average"
    ELSE "poor"

(* Variant: the third test joins its comparisons with "or" *)
Quality_or(avg_temp, avg_rain, avg_humidity, avg_wind) ==
    IF GE(avg_temp, Lit(19)) /\ LE(avg_rain, Lit(40))
         /\ GE(avg_humidity, Lit(90)) /\ LE(avg_wind, Lit(8))
    THEN "perfect"
    ELSE IF GE(avg_temp, Lit(15)) /\ LE(avg_rain, Lit(20))
              /\ GE(avg_humidity, Lit(70)) /\ LE(avg_wind, Lit(12))
    THEN "good"
    ELSE IF GE(avg_temp, Lit(12)) \/ LE(avg_rain, Lit(10))
              \/ GE(avg_humidity, Lit(60)) \/ LE(avg_wind, Lit(15))
    THEN "average"
    ELSE "poor"

(* Variant: the third tier is tested first *)
Quality_average_first(avg_temp, avg_rain, avg_humidity, avg_wind) ==
    IF GE(avg_temp, Lit(12)) /\ LE(avg_rain, Lit(10))
         /\ GE(avg_humidity, Lit(60)) /\ LE(avg_wind, Lit(15))
    THEN "average"
    ELSE IF GE(avg_temp, Lit(19)) /\ LE(avg_rain, Lit(40))
              /\ GE(avg_humidity, Lit(90)) /\ LE(avg_wind, Lit(8))
    THEN "perfect"
    ELSE IF GE(avg_temp, Lit(15)) /\ LE(avg_rain, Lit(20))
              /\ GE(avg_humidity, Lit(70)) /\ LE(avg_wind, Lit(12))
    THEN "good"
    ELSE "poor"

(* Variant: the "good" test comes before the "perfect" test *)
Quality_good_first(avg_temp, avg_rain, avg_humidity, avg_wind) ==
    IF GE(avg_temp, Lit(15)) /\ LE(avg_rain, Lit(20))
         /\ GE(avg_humidity, Lit(70)) /\ LE(avg_wind, Lit(12))
    THEN "good"
    ELSE IF GE(avg_temp, Lit(19)) /\ LE(avg_rain, Lit(40))
              /\ GE(avg_humidity, Lit(90)) /\ LE(avg_wind, Lit(8))
    THEN "perfect"
    ELSE IF GE(avg_temp, Lit(12)) /\ LE(avg_rain, Lit(10))
              /\ GE(avg_humidity, Lit(60)) /\ LE(avg_wind, Lit(15))
    THEN "average"
    ELSE "poor"

Quality(avg_temp, avg_rain, avg_humidity, avg_wind) ==
    IF GE(avg_temp, Lit(19)) /\ LE(avg_rain, Lit(40))
         /\ GE(avg_humidity, Lit(90)) /\ LE(avg_wind, Lit(8))
    THEN "perfect"
    ELSE IF GE(avg_temp, Lit(15)) /\ LE(avg_rain, Lit(20))
              /\ GE(avg_humidity, Lit(70)) /\ LE(avg_wind, Lit(12))
    THEN "good"
    ELSE IF GE(avg_temp, Lit(12)) /\ LE(avg_rain, Lit(10))
              /\ GE(avg_humidity, Lit(60)) /\ LE(avg_wind, Lit(15))
    THEN "average"
    ELSE "poor"

(* Variant: the upper temperature bound is exclusive *)
Matches_exclusive(profile, avg_temp, avg_rain, avg_humidity, avg_wind) ==
    LET t_min == profile.temp_range[1]
        t_max == profile.temp_range[2]
    IN  /\ GE(avg_temp, t_min) /\ ~GE(avg_temp, t_max)
        /\ GE(avg_humidity, profile.humidity_min)
        /\ GE(avg_rain, profile.rain_min) /\ LE(avg_rain, profile.rain_max)
        /\ LE(avg_wind, profile.wind_max)

Matches(profile, avg_temp, avg_rain, avg_humidity, avg_wind) ==
    LET t_min == profile.temp_range[1]
        t_max == profile.temp_range[2]
    IN  /\ GE(avg_temp, t_min) /\ LE(avg_temp, t_max)
        /\ GE(avg_humidity, profile.humidity_min)
        /\ GE(avg_rain, profile.rain_min) /\ LE(avg_rain, profile.rain_max)
        /\ LE(avg_wind, profile.wind_max)

(* round(x, 1): the tenths nearest to n/d.  On an exact tie the result   *)
(* depends on the binary representation of the float, so both neighbours *)
(* are possible outcomes.                                                *)
Floor(a) == IF a.n >= 0 THEN a.n \div a.d ELSE -((-a.n + a.d - 1) \div a.d)

(* Variant: the digits after the first decimal are cut off *)
round1_floor(a) == {Floor(a)}

round1(a) ==
    LET lo  == Floor(a)
        rem == a.n - lo * a.d
    IN  IF 2 * rem < a.d THEN {lo}
        ELSE IF 2 * rem > a.d THEN {lo + 1}
        ELSE {lo, lo + 1}

---------------------------------------------------------------------------
(* What the upstream services may answer *)

EmptyHourly ==
    [temperature_2m |-> <<>>, relative_humidity_2m |-> <<>>, wind_speed_10m |-> <<>>]

Fallback ==
    [temperature_2m |-> <<Some(Lit(15))>>,
     relative_humidity_2m |-> <<Some(Lit(70))>>,
     wind_speed_10m |-> <<Some(Lit(10))>>]

(* Outcomes of requests.get(open_meteo_url) and of .json() on its answer: *)
(*   ok               status 200 and a JSON object                        *)
(*   RequestException the request raised (connection error, timeout)      *)
(*   status_not_200   an answer with another status code                  *)
(*   JSONDecodeError  body is not JSON; the error raised by .json() is a  *)
(*                    requests.RequestException (requests >= 2.27)        *)
(*   ValueError       body is not JSON; the error raised by .json() is a  *)
(*                    plain ValueError (older requests)                   *)
MeteoKinds == {"ok", "RequestException", "status_not_200", "JSONDecodeError", "ValueError"}

MeteoOk(t, h, w) ==
    [kind |-> "ok",
     hourly |-> [temperature_2m |-> t, relative_humidity_2m |-> h, wind_speed_10m |-> w]]
MeteoFail(k) == [kind |-> k, hourly |-> EmptyHourly]

(* Outcomes of one day's history.json request: as above, and ValueError  *)
(* for an answer that makes lines 666-667 raise anything that is not a    *)
(* requests.RequestException (a parse error of older requests, an empty   *)
(* forecastday list)                                                      *)
RainFail(k) == [kind |-> k, has_key |-> FALSE, totalprecip_mm |-> None]
RainNoKey   == [kind |-> "ok", has_key |-> FALSE, totalprecip_mm |-> None]
RainNull    == [kind |-> "ok", has_key |-> TRUE, totalprecip_mm |-> None]
RainValue(v) == [kind |-> "ok", has_key |-> TRUE, totalprecip_mm |-> Some(v)]

RainOutcomes ==
    {RainFail("RequestException"), RainFail("status_not_200"), RainFail("ValueError"),
     RainNoKey, RainNull, RainValue(Lit(0)), RainValue(Lit(7))}

RainAll(o) == [d \in 0 .. RainDays - 1 |-> o]

RainPatterns ==
    {[d \in 0 .. RainDays - 1 |-> IF d < VariedDays THEN f[d] ELSE rest] :
        f \in [0 .. VariedDays - 1 -> RainOutcomes], rest \in RainOutcomes}

ForecastOutcomes == {"ok", "RequestException", "status_not_200", "ValueError"}

Today0 == 100
Days == {Today0, Today0 + 265}

Input(today, meteo, rain, forecast) ==
    [today |-> today, meteo |-> meteo, rain |-> rain, forecast |-> forecast]

One(v) == <<Some(v)>>

(* Single readings on and next to the thresholds of the quality chain and *)
(* of the profile table *)
TempGrid == {Lit(0), Dec(11, 9), Lit(12), Dec(14, 9), Lit(15), Dec(18, 9),
             Lit(19), Lit(20), Lit(28), Dec(28, 1)}
HumidityGrid == {Lit(0), Dec(59, 9), Lit(60), Dec(69, 9), Lit(70), Dec(89, 9), Lit(90)}
RainGrid == {Lit(0), Dec(0, 1), Lit(10), Dec(10, 1), Lit(20), Dec(20, 1),
             Lit(40), Dec(40, 1), Lit(80), Dec(80, 1)}
WindGrid == {Lit(0), Lit(8), Dec(8, 1), Lit(12), Dec(12, 1), Lit(15),
             Dec(15, 1), Lit(16), Dec(16, 1)}

GridInputs ==
    {Input(Today0, MeteoOk(One(t), One(h), One(w)), RainAll(RainValue(r)), "ok") :
        t \in TempGrid, h \in HumidityGrid, w \in WindGrid, r \in RainGrid}

(* Hourly arrays of numbers and nulls, element by element *)
BoundedSeq(S, n) == UNION {[1 .. k -> S] : k \in 0 .. n}
Readings == {None, Some(Lit(10)), Some(Lit(20))}

SeqInputs ==
    {Input(Today0, MeteoOk(t, h, w), RainAll(o), "ok") :
        t \in BoundedSeq(Readings, MaxLen),
        h \in {<<>>, <<None, None>>, <<None, Some(Lit(91)), Some(Lit(90))>>},
        w \in {<<>>, <<None>>, <<Some(Lit(7)), None, Some(Dec(7, 1))>>},
        o \in {RainFail("status_not_200"), RainNull, RainValue(Lit(5))}}

(* The end-to-end sample of the documentation: five daily rain readings, *)
(* the two oldest days answering with a status other than 200            *)
ScenarioMeteo ==
    MeteoOk(<<Some(Lit(18)), Some(Lit(19)), Some(Lit(20)), Some(Lit(21)), Some(Lit(22))>>,
            <<Some(Lit(91)), Some(Lit(92)), Some(Lit(90)), Some(Lit(93)), Some(Lit(89))>>,
            <<Some(Lit(7)), Some(Lit(8)), Some(Lit(6)), Some(Lit(5)), Some(Lit(9))>>)

ScenarioRain ==
    [d \in 0 .. RainDays - 1 |->
        IF d = 0 THEN RainValue(Lit(5))
        ELSE IF d = 1 THEN RainValue(Lit(3))
        ELSE IF d = 2 THEN RainValue(Lit(2))
        ELSE IF d = 3 THEN RainValue(Lit(0))
        ELSE IF d = 4 THEN RainValue(Lit(1))
        ELSE RainFail("status_not_200")]

Scenario == Input(Today0, ScenarioMeteo, ScenarioRain, "ok")

AllNull ==
    Input(Today0, MeteoOk(<<None, None>>, <<None>>, <<None, None, None>>),
          RainAll(RainNull), "ok")

MeteoSamples ==
    {MeteoFail(k) : k \in MeteoKinds \ {"ok"}}
        \cup {MeteoOk(One(Lit(20)), One(Lit(75)), One(Lit(5))), MeteoOk(<<>>, <<>>, <<>>)}

FaultInputs ==
    {Input(Today0, m, r, "ok") : m \in MeteoSamples, r \in RainPatterns}
        \cup {Input(t, m, RainAll(RainValue(Lit(7))), f) :
                t \in Days, m \in MeteoSamples, f \in ForecastOutcomes}

(* Hourly winds whose mean, 8.03, is above the bound of the first tier and *)
(* is reported as 8.0                                                     *)
NearTier ==
    Input(Today0,
          MeteoOk(<<Some(Lit(19))>>, <<Some(Lit(90))>>,
                  <<Some(Lit(8)), Some(Lit(8)), Some(Dec(8, 1))>>),
          RainAll(RainValue(Lit(5))), "ok")

Inputs == GridInputs \cup SeqInputs \cup FaultInputs \cup {Scenario, AllNull, NearTier}

ConcInputs ==
    {Scenario, AllNull,
     Input(Today0 + 265, MeteoFail("RequestException"), RainAll(RainValue(Lit(7))), "ok")}

---------------------------------------------------------------------------
(* The tables, the passwords and the access tokens                        *)
(*                                                                        *)
(* Time is counted in ticks of half a second, so that the truncation of   *)
(* a token's exp claim to whole seconds is visible.  A users row keeps the *)
(* columns that some decision of the program reads or that a claim names   *)
(* (username, email, password_hash, role); its id is its position.        *)

ACCESS_TOKEN_EXPIRE_MINUTES == 30
TicksPerSecond == 2
Lifetime == ACCESS_TOKEN_EXPIRE_MINUTES * 60 * TicksPerSecond

(* The instants at which something happens: the start, a fraction of a   *)
(* second later, and around the end of a token's life                    *)
Instants == {0, 1, Lifetime - TicksPerSecond, Lifetime, Lifetime + TicksPerSecond}

Usernames == {"alice", "bob"}
Emails == {"a@x.org", "b@x.org"}
Passwords == {"admin123", "hunter2"}
Salts == {"s1", "s2"}

(* bcrypt.hashpw(password, salt) and bcrypt.checkpw(password, hashed):   *)
(* the hash carries its salt, and a password is checked by hashing it    *)
(* again with that salt                                                   *)
hashpw(password, salt) == [salt |-> salt, digest |-> <<password, salt>>]
checkpw(password, hashed) == hashpw(password, hashed.salt) = hashed

Row(username, email, password_hash, role) ==
    [username |-> username, email |-> email, password_hash |-> password_hash, role |-> role]

(* The users table after init_database: the administrator only *)
AdminRow == Row("admin", "admin@mushroomapp.com", hashpw("admin123", "s1"), "admin")

(* Variant: a new account is inserted with the administrator's role *)
InsertUser_admin(tbl, username, email, password_hash) ==
    Append(tbl, Row(username, email, password_hash, "admin"))

(* INSERT INTO users (username, email, password_hash, full_name): the role *)
(* column takes its default, 'user'                                        *)
InsertUser(tbl, username, email, password_hash) ==
    Append(tbl, Row(username, email, password_hash, "user"))

(* The UNIQUE constraints on username and on email *)
UniqueViolation(tbl, id, username, email) ==
    \E j \in DOMAIN tbl : j # id /\ (tbl[j].username = username \/ tbl[j].email = email)

(* SELECT ... FROM users WHERE username = ?: the id of the row, 0 if none *)
UserByName(tbl, username) ==
    IF \E j \in DOMAIN tbl : tbl[j].username = username
    THEN CHOOSE j \in DOMAIN tbl : tbl[j].username = username
    ELSE 0

(* Variant: only the username is looked up *)
UserExists_username(tbl, username, email) ==
    \E j \in DOMAIN tbl : tbl[j].username = username

(* SELECT username FROM users WHERE username = ? OR email = ? *)
UserExists(tbl, username, email) ==
    \E j \in DOMAIN tbl : tbl[j].username = username \/ tbl[j].email = email

(* Tokens.  A JWT carries sub and exp (in whole seconds) and a signature; *)
(* a request may also come without an Authorization header, with a       *)
(* Bearer credential that is not a JWT at all, or with a credential of   *)
(* another scheme than Bearer.                                           *)
Jwt(sub, exp, sig) == [kind |-> "jwt", sub |-> sub, exp |-> exp, sig |-> sig]
NoHeader == [kind |-> "missing", sub |-> None, exp |-> 0, sig |-> "none"]
Garbage == [kind |-> "malformed", sub |-> None, exp |-> 0, sig |-> "none"]
OtherScheme == [kind |-> "scheme", sub |-> None, exp |-> 0, sig |-> "none"]

(* create_access_token: exp is utcnow() + 30 minutes, encoded in whole seconds *)
create_access_token(sub, now) ==
    Jwt(Some(sub), (now \div TicksPerSecond) + ACCESS_TOKEN_EXPIRE_MINUTES * 60, "good")

(* jwt.decode's test of exp against the clock, as the set of its possible *)
(* answers: PyJWT 2 rejects a token when exp <= now, PyJWT 1.7 compares   *)
(* whole seconds and rejects when exp < now                               *)
Expired(exp, now) == {exp * TicksPerSecond <= now, exp < now \div TicksPerSecond}

(* Variant: the signature is not verified *)
verify_token_unsigned(token, now) ==
    IF token.kind = "jwt"
    THEN {IF expired THEN None ELSE token.sub : expired \in Expired(token.exp, now)}
    ELSE {None}

(* Variant: the expiry is not verified *)
verify_token_no_exp(token, now) ==
    IF token.kind = "jwt" /\ token.sig = "good"
    THEN {token.sub}
    ELSE {None}

(* verify_token, as the set of its possible results: jwt.decode checks    *)
(* the signature and exp; the result is the sub claim, None when anything *)
(* fails or the claim is absent                                           *)
verify_token(token, now) ==
    IF token.kind = "jwt" /\ token.sig = "good"
    THEN {IF expired THEN None ELSE token.sub : expired \in Expired(token.exp, now)}
    ELSE {None}

(* get_current_user, as the set of its possible outcomes.  Without a      *)
(* Bearer credential HTTPBearer itself rejects the request, with 403 or   *)
(* 401 depending on the FastAPI release.                                  *)
Denied(status, detail) == [status |-> status, detail |-> detail, id |-> 0]

get_current_user(token, now, tbl) ==
    IF token.kind = "missing"
    THEN {Denied(403, "Not authenticated"), Denied(401, "Not authenticated")}
    ELSE IF token.kind = "scheme"
    THEN {Denied(403, "Invalid authentication credentials"), Denied(401, "Not authenticated")}
    ELSE {IF username = None THEN Denied(401, "Invalid authentication credentials")
          ELSE IF UserByName(tbl, username[1]) = 0 THEN Denied(404, "User not found")
          ELSE [status |-> 200, detail |-> "", id |-> UserByName(tbl, username[1])]
          : username \in verify_token(token, now)}

(* Credentials that were never issued by this server *)
FarFuture == 10 * ACCESS_TOKEN_EXPIRE_MINUTES * 60
ForgedTokens ==
    {NoHeader, OtherScheme, Garbage,
     Jwt(Some("admin"), FarFuture, "bad"),
     Jwt(None, FarFuture, "good"),
     Jwt(Some("ghost"), FarFuture, "good")}

(* What a client of good faith sends: a token that it was given and     *)
(* still holds, or nothing                                               *)
Holding == {t.token : t \in issued} \cup {NoHeader}

(* What any client can send *)
Presentable == Holding \cup ForgedTokens

(* The record of a served request: the operation, the credential and the *)
(* user it was served for (0 if none), the strings and the id of the     *)
(* request, and the answer: its status, its detail and its body (None    *)
(* if it has none)                                                       *)
Served(op, token, user, req, arg, status, detail, body) ==
    [op |-> op, token |-> token, user |-> user, req |-> req, arg |-> arg,
     status |-> status, detail |-> detail, body |-> body]

NoRequest == Served("none", NoHeader, 0, <<>>, 0, 0, "", None)

(* An error that nothing catches *)
InternalError == "Internal Server Error"

(* A request stopped by get_current_user: no table is touched *)
Reject(op, token, req, arg, auth) ==
    /\ last' = Served(op, token, 0, req, arg, auth.status, auth.detail, None)
    /\ UNCHANGED <<users, journal_entries, journal_seq, forum_posts, clock, issued>>

weatherVars == <<upstream, MUSHROOM_PROFILES, frame, requests, response>>

(* The state after startup_event: init_database has inserted the administrator *)
ApiInit ==
    /\ users = <<AdminRow>>
    /\ journal_entries = {}
    /\ journal_seq = 0
    /\ forum_posts = <<>>
    /\ clock = 0
    /\ issued = {}
    /\ last = NoRequest

NoCalls ==
    /\ upstream = <<>>
    /\ MUSHROOM_PROFILES = ProfileTable
    /\ frame = <<>>
    /\ requests = <<>>
    /\ response = <<>>

---------------------------------------------------------------------------
---------------------------------------------------------------------------
(* State of one call *)

InitFrame ==
    [pc |-> "start", today |-> 0, start_date |-> 0, meteo_data |-> EmptyHourly,
     avg_temp |-> Rat(0, 1), avg_humidity |-> Rat(0, 1), avg_wind |-> Rat(0, 1),
     i |-> 0, rain_values |-> <<>>, avg_rain |-> Rat(0, 1), quality |-> "",
     idx |-> 1, recommended |-> <<>>]

NoRequests == [meteo |-> <<>>, rain |-> <<>>, forecast |-> 0]
NoResponse == [status |-> 0]

Calls == DOMAIN frame

Init ==
    /\ upstream \in [1 .. 1 -> Inputs]
    /\ MUSHROOM_PROFILES = ProfileTable
    /\ frame = [c \in 1 .. 1 |-> InitFrame]
    /\ requests = [c \in 1 .. 1 |-> NoRequests]
    /\ response = [c \in 1 .. 1 |-> NoResponse]
    /\ ApiInit

InitConc ==
    /\ upstream \in [1 .. NumCalls -> ConcInputs]
    /\ MUSHROOM_PROFILES = ProfileTable
    /\ frame = [c \in 1 .. NumCalls |-> InitFrame]
    /\ requests = [c \in 1 .. NumCalls |-> NoRequests]
    /\ response = [c \in 1 .. NumCalls |-> NoResponse]
    /\ ApiInit

---------------------------------------------------------------------------
(* check_conditions, step by step *)

(* Variant: the window starts a full week before today *)
StartDate_week(today) == today - RainDays

(* The first day of the hourly window *)
StartDate(today) == today - WindowBack

(* Variant: every failure of the hourly request is caught *)
MeteoRaises_never(kind) == FALSE

(* The outcomes that leave the try block of lines 645-652 uncaught: the   *)
(* HTTPException raised on a status other than 200, and a parse error    *)
(* that is not a requests.RequestException                               *)
MeteoRaises(kind) == kind \in {"status_not_200", "ValueError"}

(* Lines 635-656: the dates, the Open-Meteo request and the three hourly *)
(* averages; an HTTPException or a ValueError leaves the handler.        *)
FetchMeteo(c) ==
    /\ frame[c].pc = "start"
    /\ LET today == upstream[c].today
           start_date == StartDate(today)
           kind == upstream[c].meteo.kind
           meteo_data == IF kind = "ok" THEN upstream[c].meteo.hourly ELSE Fallback
       IN  /\ requests' = [requests EXCEPT ![c].meteo = <<start_date, today>>]
           /\ IF MeteoRaises(kind)
              THEN /\ frame' = [frame EXCEPT ![c].pc = "done", ![c].today = today,
                                            ![c].start_date = start_date]
                   /\ response' = [response EXCEPT ![c] = [status |-> 500]]
              ELSE /\ frame' = [frame EXCEPT
                                  ![c].pc = "rain",
                                  ![c].today = today,
                                  ![c].start_date = start_date,
                                  ![c].meteo_data = meteo_data,
                                  ![c].avg_temp = average(meteo_data.temperature_2m),
                                  ![c].avg_humidity = average(meteo_data.relative_humidity_2m),
                                  ![c].avg_wind = average(meteo_data.wind_speed_10m),
                                  ![c].i = 0,
                                  ![c].rain_values = <<>>]
                   /\ UNCHANGED response
    /\ UNCHANGED <<apiVars, upstream, MUSHROOM_PROFILES>>

(* day_data.get("totalprecip_mm", 0) *)
TotalPrecip(o) == IF o.has_key THEN o.totalprecip_mm ELSE Some(Lit(0))

(* rain_values after one iteration of the loop of lines 660-669 *)
RainAppend(rain_values, o) ==
    IF o.kind = "ok" THEN Append(rain_values, TotalPrecip(o))
    ELSE IF o.kind = "RequestException" THEN Append(rain_values, Some(Lit(0)))
    ELSE rain_values

(* One iteration of the rainfall loop *)
FetchRain(c) ==
    /\ frame[c].pc = "rain"
    /\ frame[c].i < RainDays
    /\ LET date == frame[c].today - frame[c].i
           o == upstream[c].rain[frame[c].i]
       IN  /\ requests' = [requests EXCEPT ![c].rain = Append(@, date)]
           /\ IF o.kind = "ValueError"
              THEN /\ frame' = [frame EXCEPT ![c].pc = "done"]
                   /\ response' = [response EXCEPT ![c] = [status |-> 500]]
              ELSE /\ frame' = [frame EXCEPT
                                  ![c].i = @ + 1,
                                  ![c].rain_values = RainAppend(@, o)]
                   /\ UNCHANGED response
    /\ UNCHANGED <<apiVars, upstream, MUSHROOM_PROFILES>>

(* Lines 671-684: the rain average, the quality and the empty result list *)
Classify(c) ==
    /\ frame[c].pc = "rain"
    /\ frame[c].i = RainDays
    /\ LET avg_rain == IF frame[c].rain_values # <<>>
                       THEN average(frame[c].rain_values) ELSE Rat(0, 1)
       IN  frame' = [frame EXCEPT
                       ![c].pc = "recommend",
                       ![c].avg_rain = avg_rain,
                       ![c].quality = Quality(frame[c].avg_temp, avg_rain,
                                              frame[c].avg_humidity, frame[c].avg_wind),
                       ![c].idx = 1,
                       ![c].recommended = <<>>]
    /\ UNCHANGED <<apiVars, upstream, MUSHROOM_PROFILES, requests, response>>

(* Variant: a matching species is taken out of the shared table *)
Recommend_consume(c) ==
    /\ frame[c].pc = "recommend"
    /\ frame[c].idx <= Len(MUSHROOM_PROFILES)
    /\ LET profile == MUSHROOM_PROFILES[frame[c].idx]
           hit == Matches(profile, frame[c].avg_temp, frame[c].avg_rain,
                          frame[c].avg_humidity, frame[c].avg_wind)
       IN  /\ frame' = [frame EXCEPT
                          ![c].idx = IF hit THEN @ ELSE @ + 1,
                          ![c].recommended = IF hit THEN Append(@, profile.name) ELSE @]
           /\ MUSHROOM_PROFILES' =
                 IF hit
                 THEN SelectSeq(MUSHROOM_PROFILES, LAMBDA p : p.name # profile.name)
                 ELSE MUSHROOM_PROFILES
    /\ UNCHANGED <<apiVars, upstream, requests, response>>

(* Variant: a matching species is put at the front of the list *)
Recommend_prepend(c) ==
    /\ frame[c].pc = "recommend"
    /\ frame[c].idx <= Len(MUSHROOM_PROFILES)
    /\ LET profile == MUSHROOM_PROFILES[frame[c].idx]
       IN  frame' = [frame EXCEPT
                       ![c].idx = @ + 1,
                       ![c].recommended =
                           IF Matches(profile, frame[c].avg_temp, frame[c].avg_rain,
                                      frame[c].avg_humidity, frame[c].avg_wind)
                           THEN <<profile.name>> \o @ ELSE @]
    /\ UNCHANGED <<apiVars, upstream, MUSHROOM_PROFILES, requests, response>>

(* One iteration of the loop over MUSHROOM_PROFILES.items(), lines 685-693 *)
Recommend(c) ==
    /\ frame[c].pc = "recommend"
    /\ frame[c].idx <= Len(MUSHROOM_PROFILES)
    /\ LET profile == MUSHROOM_PROFILES[frame[c].idx]
       IN  frame' = [frame EXCEPT
                       ![c].idx = @ + 1,
                       ![c].recommended =
                           IF Matches(profile, frame[c].avg_temp, frame[c].avg_rain,
                                      frame[c].avg_humidity, frame[c].avg_wind)
                           THEN Append(@, profile.name) ELSE @]
    /\ UNCHANGED <<apiVars, upstream, MUSHROOM_PROFILES, requests, response>>

(* Lines 695-717: the current-forecast request and the response *)
Respond(c) ==
    /\ frame[c].pc = "recommend"
    /\ frame[c].idx > Len(MUSHROOM_PROFILES)
    /\ IF upstream[c].forecast = "ValueError"
       THEN response' = [response EXCEPT ![c] = [status |-> 500]]
       ELSE \E t \in round1(frame[c].avg_temp), p \in round1(frame[c].avg_rain),
               h \in round1(frame[c].avg_humidity), w \in round1(frame[c].avg_wind) :
            response' = [response EXCEPT ![c] =
                [status |-> 200,
                 foraging_quality |-> frame[c].quality,
                 avg_temperature |-> t,
                 avg_precipitation |-> p,
                 avg_humidity |-> h,
                 avg_wind_speed |-> w,
                 has_forecast |-> upstream[c].forecast = "ok",
                 recommended_mushrooms |-> frame[c].recommended]]
    /\ requests' = [requests EXCEPT ![c].forecast = @ + 1]
    /\ frame' = [frame EXCEPT ![c].pc = "done"]
    /\ UNCHANGED <<apiVars, upstream, MUSHROOM_PROFILES>>

Next ==
    \E c \in Calls :
        \/ FetchMeteo(c)
        \/ FetchRain(c)
        \/ Classify(c)
        \/ Recommend(c)
        \/ Respond(c)

Spec == Init /\ [][Next]_vars

SpecConc == InitConc /\ [][Next]_vars

---------------------------------------------------------------------------
(* The account endpoints *)

(* The client keeps the token it is given, while it has room for one *)
Issue(token) ==
    issued' = IF Cardinality(issued) < MaxTokens
              THEN issued \cup {[token |-> token, at |-> clock]}
              ELSE issued

(* POST /signup *)
Signup(username, email, password) ==
    /\ LET req == <<username, email, password>>
       IN  IF UserExists(users, username, email)
           THEN /\ last' = Served("signup", NoHeader, 0, req, 0, 400,
                                  "Username or email already registered", None)
                /\ UNCHANGED <<users, issued>>
           ELSE IF UniqueViolation(users, 0, username, email)
           THEN /\ last' = Served("signup", NoHeader, 0, req, 0, 500, InternalError, None)
                /\ UNCHANGED <<users, issued>>
           ELSE \E salt \in Salts :
                  LET token == create_access_token(username, clock)
                  IN  /\ users' = InsertUser(users, username, email, hashpw(password, salt))
                      /\ Issue(token)
                      /\ last' = Served("signup", NoHeader, Len(users) + 1, req, 0,
                                        200, "", Some(token))
    /\ UNCHANGED <<weatherVars, journal_entries, journal_seq, forum_posts, clock>>

(* Variant: an existing user is let in whatever the password *)
LoginUser_any_password(tbl, username, password) == UserByName(tbl, username)

(* The test of line 777: the id of the row that logs in, 0 if the username *)
(* is unknown or the password does not match its hash                      *)
LoginUser(tbl, username, password) ==
    LET id == UserByName(tbl, username)
    IN  IF id = 0 \/ ~checkpw(password, tbl[id].password_hash) THEN 0 ELSE id

(* POST /login *)
Login(username, password) ==
    /\ LET id == LoginUser(users, username, password)
           req == <<username, password>>
       IN  IF id = 0
           THEN /\ last' = Served("login", NoHeader, 0, req, 0, 401,
                                  "Incorrect username or password", None)
                /\ UNCHANGED issued
           ELSE LET token == create_access_token(users[id].username, clock)
                IN  /\ Issue(token)
                    /\ last' = Served("login", NoHeader, id, req, 0, 200, "", Some(token))
    /\ UNCHANGED <<weatherVars, users, journal_entries, journal_seq, forum_posts, clock>>

(* GET /user/profile *)
GetUserProfile(token) ==
    /\ \E auth \in get_current_user(token, clock, users) :
          IF auth.status # 200 THEN Reject("get_user_profile", token, <<>>, 0, auth)
          ELSE /\ last' = Served("get_user_profile", token, auth.id, <<>>, 0,
                                 200, "", Some(users[auth.id]))
               /\ UNCHANGED <<users, journal_entries, journal_seq, forum_posts, clock, issued>>
    /\ UNCHANGED weatherVars

(* PUT /user/profile: email is None when the request leaves it out; the  *)
(* NOT NULL and UNIQUE constraints make the UPDATE fail with an error     *)
(* that nothing catches                                                   *)
UpdateUserProfile(token, email) ==
    /\ \E auth \in get_current_user(token, clock, users) :
          IF auth.status # 200 THEN Reject("update_user_profile", token, email, 0, auth)
          ELSE /\ IF email = None \/ UniqueViolation(users, auth.id, "", email[1])
                  THEN /\ last' = Served("update_user_profile", token, auth.id, email, 0,
                                         500, InternalError, None)
                       /\ UNCHANGED users
                  ELSE /\ last' = Served("update_user_profile", token, auth.id, email, 0,
                                         200, "", None)
                       /\ users' = [users EXCEPT ![auth.id].email = email[1]]
               /\ UNCHANGED <<journal_entries, journal_seq, forum_posts, clock, issued>>
    /\ UNCHANGED weatherVars

(* Variant: the UPDATE has no WHERE clause *)
SetPassword_all(tbl, username, password_hash) ==
    [j \in DOMAIN tbl |-> [tbl[j] EXCEPT !.password_hash = password_hash]]

(* UPDATE users SET password_hash = ? WHERE username = ? *)
SetPassword(tbl, username, password_hash) ==
    [j \in DOMAIN tbl |->
        IF tbl[j].username = username
        THEN [tbl[j] EXCEPT !.password_hash = password_hash] ELSE tbl[j]]

(* POST /user/change-password *)
ChangePassword(token, current_password, new_password) ==
    /\ \E auth \in get_current_user(token, clock, users) :
          LET req == <<current_password, new_password>>
          IN  IF auth.status # 200 THEN Reject("change_password", token, req, 0, auth)
              ELSE /\ IF ~checkpw(current_password, users[auth.id].password_hash)
                      THEN /\ last' = Served("change_password", token, auth.id, req, 0,
                                             400, "Current password is incorrect", None)
                           /\ UNCHANGED users
                      ELSE \E salt \in Salts :
                             /\ users' = SetPassword(users, users[auth.id].username,
                                                     hashpw(new_password, salt))
                             /\ last' = Served("change_password", token, auth.id, req, 0,
                                               200, "", None)
                   /\ UNCHANGED <<journal_entries, journal_seq, forum_posts, clock, issued>>
    /\ UNCHANGED weatherVars

(* Variant: every authenticated caller passes for an administrator *)
IsAdmin_anyone(tbl, id) == id \in DOMAIN tbl

(* current_user["role"] == "admin" *)
IsAdmin(tbl, id) == tbl[id].role = "admin"

(* The answer of an admin endpoint to a caller who is not an administrator *)
Forbidden(op, token, id, req, arg) ==
    /\ last' = Served(op, token, id, req, arg, 403, "Admin access required", None)
    /\ UNCHANGED <<users, journal_entries, journal_seq, forum_posts, clock, issued>>

(* GET /admin/check *)
CheckAdmin(token) ==
    /\ \E auth \in get_current_user(token, clock, users) :
          IF auth.status # 200 THEN Reject("check_admin", token, <<>>, 0, auth)
          ELSE IF ~IsAdmin(users, auth.id) THEN Forbidden("check_admin", token, auth.id, <<>>, 0)
          ELSE /\ last' = Served("check_admin", token, auth.id, <<>>, 0, 200, "", None)
               /\ UNCHANGED <<users, journal_entries, journal_seq, forum_posts, clock, issued>>
    /\ UNCHANGED weatherVars

(* Time passes *)
Tick ==
    /\ \E t \in Instants : t > clock /\ clock' = t
    /\ last' = NoRequest
    /\ UNCHANGED <<weatherVars, users, journal_entries, journal_seq, forum_posts, issued>>

---------------------------------------------------------------------------
(* The accounts: any requests to the account endpoints, at one instant *)

InitAuth == NoCalls /\ ApiInit

NextAuth ==
    \/ \E u \in Usernames, e \in Emails, p \in Passwords : Signup(u, e, p)
    \/ \E u \in Usernames \cup {"admin", "ghost"}, p \in Passwords : Login(u, p)
    \/ \E t \in Holding, e \in {None} \cup {Some(x) : x \in Emails} : UpdateUserProfile(t, e)
    \/ \E t \in Holding, p \in Passwords, q \in Passwords : ChangePassword(t, p, q)
    \/ \E t \in Holding : CheckAdmin(t)

SpecAuth == InitAuth /\ [][NextAuth]_vars

(* The tokens over time: one account besides the administrator's *)

InitTokens == NoCalls /\ ApiInit

NextTokens ==
    \/ Signup("alice", "a@x.org", "hunter2")
    \/ \E u \in {"admin", "alice"}, p \in Passwords : Login(u, p)
    \/ \E t \in Holding : GetUserProfile(t)
    \/ \E t \in Holding, p \in Passwords, q \in Passwords : ChangePassword(t, p, q)
    \/ Tick

SpecTokens == InitTokens /\ [][NextTokens]_vars

---------------------------------------------------------------------------
(* The journal, the forum and the admin endpoints                         *)
(*                                                                        *)
(* A journal_entries row keeps id, user_id and species_found; a           *)
(* forum_posts row keeps author and auto_generated.  get_current_user     *)
(* and the handler it guards are taken together as one step: what the     *)
(* handler reads of the caller (id, username, role) is changed by nothing. *)

(* species_found as the client wrote it, split at the commas *)
SpeciesLists == {<<>>, <<"Morel">>, <<"morel", "chanterelle">>}

(* s.strip().lower() *)
lower(s) == IF s = "Morel" THEN "morel" ELSE s

Entry(id, user_id, species_found) ==
    [id |-> id, user_id |-> user_id, species_found |-> species_found]

(* INSERT INTO journal_entries: the id is the next of the sequence *)
InsertEntry(tbl, seq, user_id, species_found) ==
    tbl \cup {Entry(seq + 1, user_id, species_found)}

(* Variant: the rows of every user are selected *)
SelectEntries_all(tbl, user_id) == tbl

(* SELECT * FROM journal_entries WHERE user_id = ? *)
SelectEntries(tbl, user_id) == {e \in tbl : e.user_id = user_id}

(* What get_journal_entries returns of a row: every column but user_id *)
Shown(entries) == {[id |-> e.id, species_found |-> e.species_found] : e \in entries}

(* The counts of get_journal_stats *)
Stats(entries) ==
    [total_entries |-> Cardinality(entries),
     unique_species |-> Cardinality(
        UNION {{lower(e.species_found[i]) : i \in DOMAIN e.species_found} : e \in entries})]

(* Variant: every entry of the same user goes with it *)
DeleteEntry_of_user(tbl, id) ==
    {e \in tbl : \A d \in tbl : d.id = id => e.user_id # d.user_id}

(* DELETE FROM journal_entries WHERE id = ? *)
DeleteEntry(tbl, id) == {e \in tbl : e.id # id}

Post(author, auto_generated) == [author |-> author, auto_generated |-> auto_generated]

(* save_article_to_forum, for k articles one after the other *)
SaveArticles(tbl, k) == tbl \o [i \in 1 .. k |-> Post("ForagersBot", TRUE)]

(* top_articles: at most five of what the feeds gave *)
TopArticles == 5

Room == MaxPosts - Len(forum_posts)

Min(a, b) == IF a < b THEN a ELSE b

(* An answer that leaves every table as it is *)
Answer(op, token, id, req, arg, status, detail, body) ==
    /\ last' = Served(op, token, id, req, arg, status, detail, body)
    /\ UNCHANGED <<users, journal_entries, journal_seq, forum_posts, clock, issued>>

(* POST /journal/entries *)
CreateJournalEntry(token, species_found) ==
    /\ journal_seq < MaxEntries
    /\ \E auth \in get_current_user(token, clock, users) :
          IF auth.status # 200 THEN Reject("create_journal_entry", token, species_found, 0, auth)
          ELSE /\ journal_entries' = InsertEntry(journal_entries, journal_seq, auth.id, species_found)
               /\ journal_seq' = journal_seq + 1
               /\ last' = Served("create_journal_entry", token, auth.id, species_found,
                                 journal_seq + 1, 200, "", None)
               /\ UNCHANGED <<users, forum_posts, clock, issued>>
    /\ UNCHANGED weatherVars

(* GET /journal/entries *)
GetJournalEntries(token) ==
    /\ \E auth \in get_current_user(token, clock, users) :
          IF auth.status # 200 THEN Reject("get_journal_entries", token, <<>>, 0, auth)
          ELSE Answer("get_journal_entries", token, auth.id, <<>>, 0, 200, "",
                      Some([entries |-> Shown(SelectEntries(journal_entries, auth.id))]))
    /\ UNCHANGED weatherVars

(* GET /journal/stats *)
GetJournalStats(token) ==
    /\ \E auth \in get_current_user(token, clock, users) :
          IF auth.status # 200 THEN Reject("get_journal_stats", token, <<>>, 0, auth)
          ELSE Answer("get_journal_stats", token, auth.id, <<>>, 0, 200, "",
                      Some(Stats(SelectEntries(journal_entries, auth.id))))
    /\ UNCHANGED weatherVars

(* DELETE /admin/journal-entries/{entry_id} *)
DeleteJournalEntryAdmin(token, entry_id) ==
    /\ \E auth \in get_current_user(token, clock, users) :
          IF auth.status # 200 THEN Reject("delete_journal_entry_admin", token, <<>>, entry_id, auth)
          ELSE IF ~IsAdmin(users, auth.id)
          THEN Forbidden("delete_journal_entry_admin", token, auth.id, <<>>, entry_id)
          ELSE IF ~\E e \in journal_entries : e.id = entry_id
          THEN Answer("delete_journal_entry_admin", token, auth.id, <<>>, entry_id,
                      404, "Journal entry not found", None)
          ELSE /\ journal_entries' = DeleteEntry(journal_entries, entry_id)
               /\ last' = Served("delete_journal_entry_admin", token, auth.id, <<>>, entry_id,
                                 200, "", None)
               /\ UNCHANGED <<users, journal_seq, forum_posts, clock, issued>>
    /\ UNCHANGED weatherVars

(* The admin endpoints that only read: users, stats, journal-entries,    *)
(* user-journals and analytics.  Each answers from all the rows.         *)
AdminReads ==
    {"get_all_users", "get_admin_stats", "get_all_journal_entries",
     "get_user_journals", "get_admin_analytics"}

AdminRead(op, token) ==
    /\ \E auth \in get_current_user(token, clock, users) :
          IF auth.status # 200 THEN Reject(op, token, <<>>, 0, auth)
          ELSE IF ~IsAdmin(users, auth.id) THEN Forbidden(op, token, auth.id, <<>>, 0)
          ELSE Answer(op, token, auth.id, <<>>, 0, 200, "",
                      Some([entries |-> journal_entries, users |-> users]))
    /\ UNCHANGED weatherVars

(* GET /forum/posts *)
GetForumPosts(token) ==
    /\ \E auth \in get_current_user(token, clock, users) :
          IF auth.status # 200 THEN Reject("get_forum_posts", token, <<>>, 0, auth)
          ELSE Answer("get_forum_posts", token, auth.id, <<>>, 0, 200, "",
                      Some([posts |-> forum_posts]))
    /\ UNCHANGED weatherVars

(* POST /forum/posts *)
CreateForumPost(token) ==
    /\ Room > 0
    /\ \E auth \in get_current_user(token, clock, users) :
          IF auth.status # 200 THEN Reject("create_forum_post", token, <<>>, 0, auth)
          ELSE /\ forum_posts' = Append(forum_posts, Post(users[auth.id].username, FALSE))
               /\ last' = Served("create_forum_post", token, auth.id, <<>>, 0, 200, "", None)
               /\ UNCHANGED <<users, journal_entries, journal_seq, clock, issued>>
    /\ UNCHANGED weatherVars

(* daily_news_aggregation: k of the articles found are saved; an error   *)
(* while fetching or saving is swallowed                                  *)
DailyNewsAggregation(k) ==
    /\ k \in 0 .. Min(TopArticles, Room)
    /\ forum_posts' = SaveArticles(forum_posts, k)

(* weekly_digest_creation: the digest is saved, if there is one *)
WeeklyDigestCreation(k) ==
    /\ k \in 0 .. Min(1, Room)
    /\ forum_posts' = SaveArticles(forum_posts, k)

(* The two jobs as the scheduler runs them *)
Scheduled(op, k) ==
    /\ IF op = "daily_news_aggregation" THEN DailyNewsAggregation(k) ELSE WeeklyDigestCreation(k)
    /\ last' = Served(op, NoHeader, 0, <<>>, k, 0, "", None)
    /\ UNCHANGED <<weatherVars, users, journal_entries, journal_seq, clock, issued>>

(* POST /admin/news/fetch-now *)
FetchNewsNow(token, k) ==
    /\ \E auth \in get_current_user(token, clock, users) :
          IF auth.status # 200 THEN Reject("fetch_news_now", token, <<>>, 0, auth)
          ELSE IF ~IsAdmin(users, auth.id) THEN Forbidden("fetch_news_now", token, auth.id, <<>>, 0)
          ELSE /\ DailyNewsAggregation(k)
               /\ last' = Served("fetch_news_now", token, auth.id, <<>>, k, 200, "", None)
               /\ UNCHANGED <<users, journal_entries, journal_seq, clock, issued>>
    /\ UNCHANGED weatherVars

(* POST /admin/news/create-digest *)
CreateDigestNow(token, k) ==
    /\ \E auth \in get_current_user(token, clock, users) :
          IF auth.status # 200 THEN Reject("create_digest_now", token, <<>>, 0, auth)
          ELSE IF ~IsAdmin(users, auth.id) THEN Forbidden("create_digest_now", token, auth.id, <<>>, 0)
          ELSE /\ WeeklyDigestCreation(k)
               /\ last' = Served("create_digest_now", token, auth.id, <<>>, k, 200, "", None)
               /\ UNCHANGED <<users, journal_entries, journal_seq, clock, issued>>
    /\ UNCHANGED weatherVars

(* GET /check, as far as the tables go: the classification that follows  *)
(* get_current_user is the subject of Spec and touches no table           *)
CheckConditions(token) ==
    /\ \E auth \in get_current_user(token, clock, users) :
          IF auth.status # 200 THEN Reject("check_conditions", token, <<>>, 0, auth)
          ELSE \E status \in {200, 500} :
                 Answer("check_conditions", token, auth.id, <<>>, 0, status, "", None)
    /\ UNCHANGED weatherVars

---------------------------------------------------------------------------
(* The journal: three accounts, each with a fresh token, and an old token *)

NewRow(username, email, password) == InsertUser(<<>>, username, email, hashpw(password, "s2"))[1]

Held(username, at) == [token |-> create_access_token(username, at), at |-> at]

Late == Lifetime + TicksPerSecond

(* The accounts of alice and bob exist, alice has written n journal     *)
(* entries and m forum posts, and it is half an hour later               *)
InitData(held, n, m) ==
    /\ NoCalls
    /\ users = <<AdminRow, NewRow("alice", "a@x.org", "hunter2"), NewRow("bob", "b@x.org", "hunter2")>>
    /\ journal_entries = {Entry(id, 2, <<"Morel">>) : id \in 1 .. n}
    /\ journal_seq = n
    /\ forum_posts = [i \in 1 .. m |-> Post("alice", FALSE)]
    /\ clock = Late
    /\ issued = held
    /\ last = NoRequest

InitJournal ==
    InitData({Held("admin", Lifetime), Held("alice", Lifetime), Held("bob", Lifetime),
              Held("alice", 0)}, 0, 0)

EntryIds == 1 .. MaxEntries

NextJournal ==
    \/ \E t \in Holding, s \in SpeciesLists : CreateJournalEntry(t, s)
    \/ \E t \in Holding : GetJournalEntries(t)
    \/ \E t \in Holding : GetJournalStats(t)
    \/ \E t \in Holding, id \in EntryIds : DeleteJournalEntryAdmin(t, id)
    \/ \E t \in Holding : AdminRead("get_all_journal_entries", t)

SpecJournal == InitJournal /\ [][NextJournal]_vars

(* The admin endpoints, called by the administrator and by a user, with *)
(* a journal and a forum that fill                                       *)

InitAdmin ==
    InitData({Held("admin", Lifetime), Held("alice", Lifetime)}, MaxEntries - 1, 0)

NextAdmin ==
    \/ \E t \in Holding : CheckAdmin(t)
    \/ \E t \in Holding, op \in AdminReads : AdminRead(op, t)
    \/ \E t \in Holding, id \in EntryIds : DeleteJournalEntryAdmin(t, id)
    \/ \E t \in Holding, k \in 0 .. Min(TopArticles, Room) : FetchNewsNow(t, k)
    \/ \E t \in Holding, k \in 0 .. Min(1, Room) : CreateDigestNow(t, k)
    \/ \E t \in Holding : CreateForumPost(t)
    \/ \E t \in Holding : CreateJournalEntry(t, <<"Morel">>)

SpecAdmin == InitAdmin /\ [][NextAdmin]_vars

(* Every guarded endpoint, with every kind of credential *)

InitGuard ==
    InitData({Held("admin", Lifetime), Held("alice", Lifetime), Held("alice", 0)},
             MaxEntries - 1, MaxPosts - 1)

NextGuard ==
    \/ \E t \in Presentable : CheckConditions(t)
    \/ \E t \in Presentable : GetUserProfile(t)
    \/ \E t \in Presentable : UpdateUserProfile(t, None)
    \/ \E t \in Presentable : ChangePassword(t, "letmein", "hunter2")
    \/ \E t \in Presentable : CheckAdmin(t)
    \/ \E t \in Presentable, op \in AdminReads : AdminRead(op, t)
    \/ \E t \in Presentable, id \in EntryIds : DeleteJournalEntryAdmin(t, id)
    \/ \E t \in Presentable : GetForumPosts(t)
    \/ \E t \in Presentable : CreateForumPost(t)
    \/ \E t \in Presentable, k \in 0 .. Min(TopArticles, Room) : FetchNewsNow(t, k)
    \/ \E t \in Presentable, k \in 0 .. Min(1, Room) : CreateDigestNow(t, k)
    \/ \E t \in Presentable : CreateJournalEntry(t, <<"Morel">>)
    \/ \E t \in Presentable : GetJournalEntries(t)
    \/ \E t \in Presentable : GetJournalStats(t)
    \/ \E op \in {"daily_news_aggregation", "weekly_digest_creation"},
          k \in 0 .. Min(TopArticles, Room) : Scheduled(op, k)

SpecGuard == InitGuard /\ [][NextGuard]_vars

---------------------------------------------------------------------------
(* Properties *)

Labels == {"perfect", "good", "average", "poor"}

(* The call has passed the quality chain *)
Classified(c) == frame[c].quality # ""

(* The call has finished the loop over the profiles *)
Listed(c) ==
    /\ Classified(c)
    /\ frame[c].pc = "recommend" => frame[c].idx > Len(ProfileTable)

(* The hourly averages have been computed: the call has reached the rainfall loop *)
Averaged(c) == frame[c].pc = "rain" \/ requests[c].rain # <<>>

Names(seq) == {seq[j] : j \in DOMAIN seq}

RECURSIVE SumAt(_, _)
SumAt(xs, J) ==
    IF J = {} THEN 0
    ELSE LET j == CHOOSE k \in J : TRUE IN xs[j][1] + SumAt(xs, J \ {j})

(* a is the arithmetic mean of the non-null entries of xs, and 0 if there are none *)
IsMean(xs, a) ==
    LET J == {j \in DOMAIN xs : xs[j] # None}
    IN  IF J = {} THEN a.n = 0 /\ a.d > 0
        ELSE a.d > 0 /\ a.n * Cardinality(J) = SumAt(xs, J) * a.d

\* C1: the quality is one of four labels chosen by ordered first match over the
\* inclusive thresholds: perfect if temp >= 19, rain <= 40, humidity >= 90,
\* wind <= 8; else good if temp >= 15, rain <= 20, humidity >= 70, wind <= 12;
\* else average if temp >= 12, rain <= 10, humidity >= 60, wind <= 15; else poor.
C1_QualityIsFirstMatchingTier ==
    \A c \in Calls : Classified(c) =>
        LET f == frame[c]
            t1 == f.avg_temp.n >= 190 * f.avg_temp.d /\ f.avg_rain.n <= 400 * f.avg_rain.d
                  /\ f.avg_humidity.n >= 900 * f.avg_humidity.d /\ f.avg_wind.n <= 80 * f.avg_wind.d
            t2 == f.avg_temp.n >= 150 * f.avg_temp.d /\ f.avg_rain.n <= 200 * f.avg_rain.d
                  /\ f.avg_humidity.n >= 700 * f.avg_humidity.d /\ f.avg_wind.n <= 120 * f.avg_wind.d
            t3 == f.avg_temp.n >= 120 * f.avg_temp.d /\ f.avg_rain.n <= 100 * f.avg_rain.d
                  /\ f.avg_humidity.n >= 600 * f.avg_humidity.d /\ f.avg_wind.n <= 150 * f.avg_wind.d
        IN  /\ f.quality \in Labels
            /\ (f.quality = "perfect") <=> t1
            /\ (f.quality = "good") <=> (~t1 /\ t2)
            /\ (f.quality = "average") <=> (~t1 /\ ~t2 /\ t3)
            /\ (f.quality = "poor") <=> (~t1 /\ ~t2 /\ ~t3)

(* Averages exactly on the bounds of the first tier, which also satisfy the second *)
C1_Witness ==
    \E c \in Calls :
        /\ Classified(c)
        /\ EQ(frame[c].avg_temp, Lit(19)) /\ EQ(frame[c].avg_rain, Lit(20))
        /\ EQ(frame[c].avg_humidity, Lit(90)) /\ EQ(frame[c].avg_wind, Lit(8))
        /\ frame[c].quality = "perfect"

\* C2: once the loop over the profiles has finished, a species is in the
\* recommended list if and only if temp_min <= avg_temp <= temp_max,
\* humidity_min <= avg_humidity, rain_min <= avg_rain <= rain_max and
\* avg_wind <= wind_max, all bounds inclusive.
C2_RecommendedIffWithinProfile ==
    \A c \in Calls : Listed(c) =>
        \A k \in DOMAIN ProfileTable :
            LET p == ProfileTable[k]
                f == frame[c]
            IN  (p.name \in Names(f.recommended)) <=>
                    /\ p.temp_range[1] * f.avg_temp.d <= f.avg_temp.n
                    /\ f.avg_temp.n <= p.temp_range[2] * f.avg_temp.d
                    /\ p.humidity_min * f.avg_humidity.d <= f.avg_humidity.n
                    /\ p.rain_min * f.avg_rain.d <= f.avg_rain.n
                    /\ f.avg_rain.n <= p.rain_max * f.avg_rain.d
                    /\ f.avg_wind.n <= p.wind_max * f.avg_wind.d

(* porcini recommended with every average on one of its bounds *)
C2_Witness ==
    \E c \in Calls :
        /\ Listed(c)
        /\ EQ(frame[c].avg_temp, Lit(28)) /\ EQ(frame[c].avg_humidity, Lit(70))
        /\ EQ(frame[c].avg_rain, Dec(0, 1)) /\ EQ(frame[c].avg_wind, Lit(16))
        /\ "porcini" \in Names(frame[c].recommended)

\* C3: average returns the arithmetic mean of the non-null entries only, and 0
\* when the sequence is empty or holds only nulls; it never stops the call.
C3_AverageIsMeanOfNonNull ==
    \A c \in Calls :
        /\ (frame[c].pc # "start" /\ ~MeteoRaises(upstream[c].meteo.kind)) => Averaged(c)
        /\ Averaged(c) =>
              /\ IsMean(frame[c].meteo_data.temperature_2m, frame[c].avg_temp)
              /\ IsMean(frame[c].meteo_data.relative_humidity_2m, frame[c].avg_humidity)
              /\ IsMean(frame[c].meteo_data.wind_speed_10m, frame[c].avg_wind)
        /\ Classified(c) => IsMean(frame[c].rain_values, frame[c].avg_rain)

(* average([10, None, 20]) = 15 *)
C3_Witness ==
    \E c \in Calls :
        /\ Averaged(c)
        /\ frame[c].meteo_data.temperature_2m = <<Some(Lit(10)), None, Some(Lit(20))>>
        /\ EQ(frame[c].avg_temp, Lit(15))
        /\ frame[c].meteo_data.relative_humidity_2m = <<None, None>>
        /\ EQ(frame[c].avg_humidity, Lit(0))

(* The daily readings that exist: a day counts only when its request was   *)
(* answered with status 200 and a non-null totalprecip_mm                  *)
RainReadings(c) ==
    [j \in 1 .. RainDays |->
        LET o == upstream[c].rain[j - 1]
        IN  IF o.kind = "ok" /\ o.has_key THEN o.totalprecip_mm ELSE None]

\* C4: a missing reading is excluded from its average and never counted as
\* zero, including a day whose rainfall request failed or whose response
\* carried no totalprecip_mm.
C4_MissingReadingsExcluded ==
    \A c \in Calls : Classified(c) =>
        /\ IsMean(frame[c].meteo_data.temperature_2m, frame[c].avg_temp)
        /\ IsMean(frame[c].meteo_data.relative_humidity_2m, frame[c].avg_humidity)
        /\ IsMean(frame[c].meteo_data.wind_speed_10m, frame[c].avg_wind)
        /\ IsMean(RainReadings(c), frame[c].avg_rain)

(* A later request of the call raised an error that nothing catches *)
LaterRequestRaised(c) ==
    \/ \E j \in DOMAIN requests[c].rain : upstream[c].rain[j - 1].kind = "ValueError"
    \/ requests[c].forecast > 0 /\ upstream[c].forecast = "ValueError"

\* C5 (as stated): every failure of the hourly request (network error, status
\* other than 200, malformed response) degrades to the fallback samples and
\* the call still answers with a classification; the failure never leads to
\* an error response.
C5_EveryFailureFallsBack ==
    \A c \in Calls :
        (upstream[c].meteo.kind # "ok" /\ frame[c].pc # "start") =>
            /\ frame[c].meteo_data = Fallback
            /\ response[c].status = 500 => LaterRequestRaised(c)
            /\ (frame[c].pc = "done" /\ ~LaterRequestRaised(c)) =>
                  response[c].status = 200 /\ response[c].foraging_quality \in Labels

\* C5 (amended): a failure raised as requests.RequestException (network error,
\* or a malformed body whose parse error is a RequestException) degrades to
\* the fallback samples [15], [70], [10] and leads to no error response: the
\* call goes on and answers with a classification (unless a later request
\* raises); a status other than 200 (and a parse error that is not a
\* RequestException) ends the call with HTTP 500 before any rainfall request.
C5_RequestExceptionFallsBack ==
    \A c \in Calls : frame[c].pc # "start" =>
        /\ upstream[c].meteo.kind \in {"RequestException", "JSONDecodeError"} =>
              /\ frame[c].meteo_data.temperature_2m = <<Some(150)>>
              /\ frame[c].meteo_data.relative_humidity_2m = <<Some(700)>>
              /\ frame[c].meteo_data.wind_speed_10m = <<Some(100)>>
              /\ response[c].status = 500 => LaterRequestRaised(c)
              /\ (frame[c].pc = "done" /\ ~LaterRequestRaised(c)) =>
                    response[c].status = 200 /\ response[c].foraging_quality \in Labels
        /\ upstream[c].meteo.kind \in {"status_not_200", "ValueError"} =>
              /\ frame[c].pc = "done" /\ response[c].status = 500
              /\ requests[c].rain = <<>>

(* A call answered from the fallback samples after a network error *)
C5_Witness ==
    \E c \in Calls :
        /\ upstream[c].meteo.kind = "RequestException"
        /\ frame[c].pc = "done" /\ response[c].status = 200
        /\ frame[c].meteo_data = Fallback
        /\ EQ(frame[c].avg_temp, Lit(15))

(* No reading at all in an array *)
AllNullOrEmpty(xs) == \A j \in DOMAIN xs : xs[j] = None

IsZero(a) == a.n = 0

\* C6: with every sample array empty or all-null the four averages are 0, the
\* quality is poor and nothing is recommended; and whenever the four averages
\* are 0 no profile matches.
C6_NoReadingsGivePoorAndEmpty ==
    \A c \in Calls : Listed(c) =>
        /\ ( /\ AllNullOrEmpty(frame[c].meteo_data.temperature_2m)
             /\ AllNullOrEmpty(frame[c].meteo_data.relative_humidity_2m)
             /\ AllNullOrEmpty(frame[c].meteo_data.wind_speed_10m)
             /\ AllNullOrEmpty(frame[c].rain_values) ) =>
                /\ IsZero(frame[c].avg_temp) /\ IsZero(frame[c].avg_humidity)
                /\ IsZero(frame[c].avg_wind) /\ IsZero(frame[c].avg_rain)
                /\ frame[c].quality = "poor"
                /\ frame[c].recommended = <<>>
        /\ ( IsZero(frame[c].avg_temp) /\ IsZero(frame[c].avg_humidity)
             /\ IsZero(frame[c].avg_wind) /\ IsZero(frame[c].avg_rain) ) =>
                frame[c].recommended = <<>>

(* A finished call whose arrays held only nulls *)
C6_Witness ==
    \E c \in Calls :
        /\ frame[c].pc = "done" /\ response[c].status = 200
        /\ frame[c].meteo_data.temperature_2m = <<None, None>>
        /\ frame[c].meteo_data.relative_humidity_2m = <<None>>
        /\ frame[c].meteo_data.wind_speed_10m = <<None, None, None>>
        /\ frame[c].rain_values = [j \in 1 .. RainDays |-> None]
        /\ response[c].foraging_quality = "poor"
        /\ response[c].recommended_mushrooms = <<>>

(* The documented end-to-end samples, in tenths *)
C7_Samples(c) ==
    /\ frame[c].meteo_data.temperature_2m = <<<<180>>, <<190>>, <<200>>, <<210>>, <<220>>>>
    /\ frame[c].meteo_data.relative_humidity_2m = <<<<910>>, <<920>>, <<900>>, <<930>>, <<890>>>>
    /\ frame[c].meteo_data.wind_speed_10m = <<<<70>>, <<80>>, <<60>>, <<50>>, <<90>>>>
    /\ frame[c].rain_values = <<<<50>>, <<30>>, <<20>>, <<0>>, <<10>>>>

\* C7: for temperatures [18,19,20,21,22], humidity [91,92,90,93,89], wind
\* [7,8,6,5,9] and daily rain [5,3,2,0,1] the averages are 20.0, 91.0, 7.0 and
\* 2.2 and the quality is perfect.
C7_ScenarioIsPerfect ==
    \A c \in Calls : (Classified(c) /\ C7_Samples(c)) =>
        /\ frame[c].avg_temp.n = 200 * frame[c].avg_temp.d
        /\ frame[c].avg_humidity.n = 910 * frame[c].avg_humidity.d
        /\ frame[c].avg_wind.n = 70 * frame[c].avg_wind.d
        /\ frame[c].avg_rain.n = 22 * frame[c].avg_rain.d
        /\ frame[c].quality = "perfect"

(* The scenario has been evaluated and answered *)
C7_Witness ==
    \E c \in Calls :
        /\ frame[c].pc = "done" /\ C7_Samples(c)
        /\ response[c].status = 200 /\ response[c].foraging_quality = "perfect"

(* What a call computes when it runs alone on the answers u *)
RECURSIVE AloneRain(_, _)
AloneRain(u, n) == IF n = 0 THEN <<>> ELSE RainAppend(AloneRain(u, n - 1), u.rain[n - 1])

RECURSIVE AloneList(_, _, _, _, _)
AloneList(n, t, r, h, w) ==
    IF n = 0 THEN <<>>
    ELSE LET rest == AloneList(n - 1, t, r, h, w)
         IN  IF Matches(ProfileTable[n], t, r, h, w)
             THEN Append(rest, ProfileTable[n].name) ELSE rest

Alone(u) ==
    LET data == IF u.meteo.kind = "ok" THEN u.meteo.hourly ELSE Fallback
        t == average(data.temperature_2m)
        h == average(data.relative_humidity_2m)
        w == average(data.wind_speed_10m)
        rv == AloneRain(u, RainDays)
        r == IF rv # <<>> THEN average(rv) ELSE Rat(0, 1)
    IN  [quality |-> Quality(t, r, h, w),
         recommended |-> AloneList(Len(ProfileTable), t, r, h, w)]

C8_SameAsAlone ==
    \A c \in Calls :
        (frame[c].pc = "done" /\ response[c].status = 200) =>
            /\ response[c].foraging_quality = Alone(upstream[c]).quality
            /\ response[c].recommended_mushrooms = Alone(upstream[c]).recommended

\* C8: no step of check_conditions writes MUSHROOM_PROFILES, and under any
\* interleaving of concurrent calls each call answers with the quality and the
\* recommendations it would compute alone on the same samples.
C8_CallsAreIndependent ==
    [](C8_SameAsAlone /\ MUSHROOM_PROFILES = ProfileTable)
        /\ [][MUSHROOM_PROFILES' = MUSHROOM_PROFILES]_vars

(* Two calls on different samples are both inside the loop over the table *)
C8_Witness ==
    \E c1 \in Calls, c2 \in Calls :
        /\ c1 # c2 /\ upstream[c1] # upstream[c2]
        /\ frame[c1].pc = "recommend" /\ frame[c1].idx > 1 /\ frame[c1].idx <= Len(ProfileTable)
        /\ frame[c2].pc = "recommend" /\ frame[c2].idx > 1 /\ frame[c2].idx <= Len(ProfileTable)
        /\ frame[c1].recommended # <<>>

KeyIndex(name) == CHOOSE k \in DOMAIN ProfileTable : ProfileTable[k].name = name

\* C9: the recommended list names species of the table in declaration order
\* (strictly increasing positions in the table), so each at most once.
C9_RecommendedInDeclarationOrder ==
    \A c \in Calls :
        LET rec == frame[c].recommended
        IN  /\ \A j \in DOMAIN rec : \E k \in DOMAIN ProfileTable : ProfileTable[k].name = rec[j]
            /\ \A a \in DOMAIN rec, b \in DOMAIN rec :
                  a < b => KeyIndex(rec[a]) < KeyIndex(rec[b])
            /\ (frame[c].pc = "done" /\ response[c].status = 200) =>
                  response[c].recommended_mushrooms = rec

(* A finished list with several species *)
C9_Witness ==
    \E c \in Calls :
        /\ Listed(c)
        /\ Len(frame[c].recommended) >= 3
        /\ frame[c].recommended[1] = "porcini"

\* C10: the hourly request spans today-6 .. today, and the rainfall loop
\* requests exactly the same 7 distinct dates, each once.
C10_SameSevenDayWindow ==
    \A c \in Calls : Classified(c) =>
        LET today == upstream[c].today
            window == (today - 6) .. today
        IN  /\ requests[c].meteo = <<today - 6, today>>
            /\ Cardinality(window) = 7
            /\ Len(requests[c].rain) = 7
            /\ Names(requests[c].rain) = window

(* The loop has run to its end for a call made on the later day *)
C10_Witness ==
    \E c \in Calls :
        /\ Classified(c)
        /\ upstream[c].today = Today0 + 265
        /\ Len(requests[c].rain) = RainDays
        /\ requests[c].rain[RainDays] = requests[c].meteo[1]

---------------------------------------------------------------------------
(* Properties of the accounts *)

Registered(username, email) ==
    \E j \in DOMAIN users : users[j].username = username \/ users[j].email = email

UniqueUsers ==
    \A i, j \in DOMAIN users :
        i # j => users[i].username # users[j].username /\ users[i].email # users[j].email

(* C14: signup requests are served one at a time; a signup whose username *)
(* or email is already registered is answered with HTTP 400 "Username or  *)
(* email already registered" and inserts no row, and the users table      *)
(* never holds two rows with the same username or the same email.         *)
C14_DuplicateSignupRejected ==
    /\ []UniqueUsers
    /\ [][(last'.op = "signup" /\ Registered(last'.req[1], last'.req[2]))
            => /\ last'.status = 400
               /\ last'.detail = "Username or email already registered"
               /\ users' = users]_vars

(* A signup with a new username and the email of another account was refused *)
C14_Witness ==
    /\ last.op = "signup" /\ last.status = 400
    /\ \A j \in DOMAIN users : users[j].username # last.req[1]
    /\ \E j \in DOMAIN users : users[j].email = last.req[2]
    /\ Len(users) = 2

(* The rows inserted by init_database *)
Seeded == DOMAIN <<AdminRow>>

(* C15: no request changes the role or the username of a user; a user     *)
(* created by signup has role "user" in every later state, and an         *)
(* admin-only endpoint succeeds only for an account that init_database    *)
(* inserted with role "admin".                                            *)
C15_RolesAndUsernamesFixed ==
    /\ [](\A j \in DOMAIN users : j \notin Seeded => users[j].role = "user")
    /\ [](last.op = "check_admin" /\ last.status = 200
            => last.user \in Seeded /\ AdminRow.role = "admin")
    /\ [][\A j \in DOMAIN users :
            /\ j \in DOMAIN users'
            /\ users'[j].role = users[j].role
            /\ users'[j].username = users[j].username]_vars

(* A user created by signup is refused by an admin-only endpoint *)
C15_Witness ==
    /\ last.op = "check_admin" /\ last.status = 403
    /\ last.user \in DOMAIN users \ Seeded
    /\ Len(users) = 3

(* The submitted username exists and the password matches its current hash *)
Matching(tbl, username, password) ==
    \E j \in DOMAIN tbl :
        tbl[j].username = username /\ checkpw(password, tbl[j].password_hash)

(* C16: login returns a token whose sub is the stored username if and     *)
(* only if a user with the submitted username exists and the submitted    *)
(* password matches that user's current password_hash; otherwise it       *)
(* answers HTTP 401 and issues no token, with the same answer for an      *)
(* unknown username and for a wrong password.                             *)
C16_LoginIffPasswordMatches ==
    [][last'.op = "login" =>
        IF Matching(users, last'.req[1], last'.req[2])
        THEN /\ last'.status = 200
             /\ last'.body # None
             /\ last'.body[1].kind = "jwt"
             /\ last'.body[1].sub = Some(last'.req[1])
        ELSE /\ last'.status = 401
             /\ last'.detail = "Incorrect username or password"
             /\ last'.body = None
             /\ issued' = issued]_vars

(* The administrator logs in with a password set by change_password *)
C16_Witness ==
    /\ last.op = "login" /\ last.status = 200
    /\ last.req = <<"admin", "hunter2">>

(* What change_password did to the table, apart from the old password *)
C17_Change(evenIfSame) ==
    (last'.op = "change_password" /\ last'.user # 0) =>
        LET id == last'.user
            username == users[id].username
            current_password == last'.req[1]
            new_password == last'.req[2]
        IN  IF ~checkpw(current_password, users[id].password_hash)
            THEN /\ last'.status = 400
                 /\ users' = users
            ELSE /\ last'.status = 200
                 /\ DOMAIN users' = DOMAIN users
                 /\ \A j \in DOMAIN users : j # id => users'[j] = users[j]
                 /\ users'[id] = [users[id] EXCEPT !.password_hash = users'[id].password_hash]
                 /\ LoginUser(users', username, new_password) = id
                 /\ (evenIfSame \/ current_password # new_password)
                       => LoginUser(users', username, current_password) = 0

(* C17 as stated: after a successful change_password, login fails with    *)
(* the old password.                                                      *)
C17_OldPasswordAlwaysFails == [][C17_Change(TRUE)]_vars

(* C17: change_password with an incorrect current_password answers HTTP   *)
(* 400 and leaves the table unchanged; with the correct one it replaces   *)
(* only the caller's password_hash, after which login succeeds with the   *)
(* new password and, when the old password differs from the new one,      *)
(* fails with the old one; no other row is modified.                      *)
C17_PasswordReplaced == [][C17_Change(FALSE)]_vars

(* A user created by signup has replaced the password by another one,    *)
(* next to a second user                                                  *)
C17_Witness ==
    /\ last.op = "change_password" /\ last.status = 200
    /\ last.user \in DOMAIN users \ Seeded
    /\ last.req[1] # last.req[2]
    /\ Len(users) = 3

---------------------------------------------------------------------------
(* Properties of the tokens *)

Elapsed(t) == clock - t.at

Accepted(t) == \A auth \in get_current_user(t.token, clock, users) : auth.status = 200
Rejected(t) == \A auth \in get_current_user(t.token, clock, users) : auth.status = 401

(* The last request was served with the token t *)
Used(t) == last.token = t.token /\ last.op \in {"get_user_profile", "change_password"}

(* A token is accepted until early and rejected from late on, whatever   *)
(* has happened to the account since it was issued                       *)
C19_Window(early, late) ==
    \A t \in issued :
        /\ Elapsed(t) <= early => Accepted(t) /\ (Used(t) => last.user # 0)
        /\ Elapsed(t) >= late => Rejected(t) /\ (Used(t) => last.status = 401)

(* C19 as stated: a token is accepted at any time before 30 minutes have *)
(* passed since it was issued, and rejected at any time after.           *)
C19_ThirtyMinutesExactly == C19_Window(Lifetime - 1, Lifetime + 1)

(* C19: a token issued by signup or login is accepted by get_current_user *)
(* whenever at most 29 minutes 59 seconds have passed since it was        *)
(* issued, and rejected with HTTP 401 whenever at least 30 minutes and    *)
(* one second have passed; no operation, change_password included,        *)
(* extends or revokes it.                                                 *)
C19_TokenLivesThirtyMinutes ==
    C19_Window(Lifetime - TicksPerSecond, Lifetime + TicksPerSecond)

(* A token is used 29 minutes 59 seconds after it was issued, by a user  *)
(* whose password has been changed in between                            *)
C19_Witness ==
    \E t \in issued :
        /\ Elapsed(t) = Lifetime - TicksPerSecond
        /\ Used(t) /\ last.op = "get_user_profile" /\ last.status = 200
        /\ LoginUser(users, "alice", "hunter2") = 0
        /\ t.token.sub = Some("alice")

---------------------------------------------------------------------------
(* Properties of the journal and of the admin endpoints *)

(* The caller is the user named by the token of the request *)
CallerIsSubject == last.user \in DOMAIN users /\ Some(users[last.user].username) = last.token.sub

Own == {e \in journal_entries : e.user_id = last.user}

(* C18: create_journal_entry stores the entry under the id of the caller, *)
(* and GET /journal/entries and GET /journal/stats answer from exactly    *)
(* the entries whose user_id is the caller's id, so that a caller who is  *)
(* not an administrator never sees an entry of another user.              *)
C18_JournalIsolation ==
    /\ [][(last'.op = "create_journal_entry" /\ last'.status = 200) =>
            /\ CallerIsSubject'
            /\ journal_entries' =
                 journal_entries \cup {Entry(journal_seq + 1, last'.user, last'.req)}
            /\ \A e \in journal_entries : e.id # journal_seq + 1]_vars
    /\ []((last.op = "get_journal_entries" /\ last.status = 200) =>
            /\ CallerIsSubject
            /\ last.body = Some([entries |->
                  {[id |-> e.id, species_found |-> e.species_found] : e \in Own}]))
    /\ []((last.op = "get_journal_stats" /\ last.status = 200) =>
            /\ CallerIsSubject
            /\ last.body = Some(Stats(Own))
            /\ last.body[1].total_entries = Cardinality(Own))
    /\ []((last.op = "get_all_journal_entries" /\ last.body # None) =>
            users[last.user].role = "admin")

(* A user reads the journal and gets an entry, while another user has    *)
(* entries too                                                            *)
C18_Witness ==
    /\ last.op = "get_journal_entries" /\ last.status = 200
    /\ last.body[1].entries # {}
    /\ \E e \in journal_entries : e.user_id # last.user
    /\ users[last.user].role = "user"

(* The entries with the id of the request *)
Target == {e \in journal_entries : e.id = last'.arg}

(* C20: DELETE /admin/journal-entries/{entry_id} by an administrator: if *)
(* no entry has that id it answers HTTP 404 and journal_entries is        *)
(* unchanged; otherwise it removes exactly that one entry and leaves      *)
(* every other entry and every user row unchanged.                        *)
C20_DeleteRemovesExactlyOne ==
    [][(/\ last'.op = "delete_journal_entry_admin"
        /\ last'.user \in DOMAIN users
        /\ users[last'.user].role = "admin") =>
            /\ users' = users
            /\ IF Target = {}
               THEN /\ last'.status = 404
                    /\ last'.detail = "Journal entry not found"
                    /\ journal_entries' = journal_entries
               ELSE /\ last'.status = 200
                    /\ Cardinality(Target) = 1
                    /\ journal_entries' = journal_entries \ Target]_vars

(* An entry was deleted and another entry is still there *)
C20_Witness ==
    /\ last.op = "delete_journal_entry_admin" /\ last.status = 200
    /\ \A e \in journal_entries : e.id # last.arg
    /\ journal_entries # {}

---------------------------------------------------------------------------
(* Properties of the guards *)

AdminOps ==
    AdminReads \cup {"check_admin", "delete_journal_entry_admin", "fetch_news_now",
                     "create_digest_now"}

TablesUnchanged ==
    /\ users' = users
    /\ journal_entries' = journal_entries
    /\ journal_seq' = journal_seq
    /\ forum_posts' = forum_posts

(* C13: every /admin/* endpoint answers an authenticated caller whose role *)
(* is not "admin" with HTTP 403 before it touches data; a call to          *)
(* DELETE /admin/journal-entries/{id} or POST /admin/news/fetch-now by     *)
(* such a caller leaves journal_entries and forum_posts unchanged.         *)
C13_AdminOnly ==
    [][(/\ last'.op \in AdminOps
        /\ last'.user \in DOMAIN users
        /\ users[last'.user].role # "admin") =>
            /\ last'.status = 403
            /\ last'.detail = "Admin access required"
            /\ last'.body = None
            /\ TablesUnchanged]_vars

(* A user who is not an administrator asks for the deletion of an entry  *)
(* that exists, while the forum has room for news                        *)
C13_Witness ==
    /\ last.op = "delete_journal_entry_admin" /\ last.status = 403
    /\ last.user \in DOMAIN users /\ users[last.user].role = "user"
    /\ \E e \in journal_entries : e.id = last.arg
    /\ Room > 0

(* The endpoints behind get_current_user *)
GuardedOps ==
    AdminOps \cup {"check_conditions", "get_user_profile", "update_user_profile",
                   "change_password", "get_forum_posts", "create_forum_post",
                   "create_journal_entry", "get_journal_entries", "get_journal_stats"}

(* No credential of the Bearer scheme came with the request *)
Missing(token) == token.kind \in {"missing", "scheme"}

(* The token is malformed, wrongly signed, expired or without sub *)
Invalid(token, now) ==
    \/ token.kind = "malformed"
    \/ /\ token.kind = "jwt"
       /\ \/ token.sig # "good"
          \/ token.sub = None
          \/ (token.exp + 1) * TicksPerSecond <= now

(* A request with such a token is turned away with one of the codes, and *)
(* no table changes                                                      *)
C11_Guard(codes) ==
    (last'.op \in GuardedOps /\ (Missing(last'.token) \/ Invalid(last'.token, clock))) =>
        /\ last'.status \in (IF Missing(last'.token) THEN codes ELSE {401})
        /\ last'.user = 0
        /\ last'.body = None
        /\ TablesUnchanged

(* C11 as stated: a request without a token is answered with HTTP 401 too *)
C11_Always401 == [][C11_Guard({401})]_vars

(* C11: every endpoint other than /signup, /login and /health is guarded  *)
(* by the bearer-token check: a request whose token is malformed, wrongly *)
(* signed, expired or without a sub claim is rejected with HTTP 401, and  *)
(* a request without a bearer token with HTTP 401 or 403, before the      *)
(* handler body runs, and users, journal_entries and forum_posts are      *)
(* unchanged.                                                             *)
C11_BearerGuard == [][C11_Guard({401, 403})]_vars

(* An expired token is refused by an endpoint that would have written *)
C11_Witness ==
    /\ last.op = "create_forum_post" /\ last.status = 401
    /\ last.token.kind = "jwt" /\ last.token.sig = "good" /\ last.token.sub = Some("alice")
    /\ Room > 0

---------------------------------------------------------------------------
(* Properties of the reported averages *)

Answered(c) == frame[c].pc = "done" /\ response[c].status = 200

(* The quality and the list of the response are what the rules give for  *)
(* the averages t, p, h and w                                            *)
RulesGive(c, t, p, h, w) ==
    /\ response[c].foraging_quality = Quality(t, p, h, w)
    /\ \A k \in DOMAIN ProfileTable :
          ProfileTable[k].name \in Names(response[c].recommended_mushrooms)
             <=> Matches(ProfileTable[k], t, p, h, w)

(* v is a within half a tenth *)
Rounds(v, a) == 2 * (v * a.d - a.n) <= a.d /\ 2 * (a.n - v * a.d) <= a.d

(* C12 as stated: the quality and the list are what the rules give for   *)
(* the four averages reported in the same response.                      *)
C12_RulesOnReported ==
    \A c \in Calls : Answered(c) =>
        RulesGive(c, Rat(response[c].avg_temperature, 1), Rat(response[c].avg_precipitation, 1),
                     Rat(response[c].avg_humidity, 1), Rat(response[c].avg_wind_speed, 1))

(* C12: the foraging_quality and recommended_mushrooms returned by        *)
(* check_conditions are those that the rules give for the averages        *)
(* before rounding; the avg_temperature, avg_precipitation, avg_humidity  *)
(* and avg_wind_speed of the same response are these averages rounded to  *)
(* one decimal.                                                           *)
C12_RulesOnUnrounded ==
    \A c \in Calls : Answered(c) =>
        /\ RulesGive(c, frame[c].avg_temp, frame[c].avg_rain,
                        frame[c].avg_humidity, frame[c].avg_wind)
        /\ Rounds(response[c].avg_temperature, frame[c].avg_temp)
        /\ Rounds(response[c].avg_precipitation, frame[c].avg_rain)
        /\ Rounds(response[c].avg_humidity, frame[c].avg_humidity)
        /\ Rounds(response[c].avg_wind_speed, frame[c].avg_wind)

(* A wind of 8.0 is reported with the second tier, because the mean is   *)
(* above 8                                                               *)
C12_Witness ==
    \E c \in Calls :
        /\ Answered(c)
        /\ response[c].avg_wind_speed = Lit(8) /\ ~LE(frame[c].avg_wind, Lit(8))
        /\ response[c].avg_temperature = Lit(19) /\ response[c].avg_humidity = Lit(90)
        /\ response[c].foraging_quality = "good"

---------------------------------------------------------------------------
(* Properties of the order of the tiers *)

(* perfect > good > average > poor *)
Rank(quality) ==
    CASE quality = "perfect" -> 3
      [] quality = "good" -> 2
      [] quality = "average" -> 1
      [] OTHER -> 0

(* The tier of the call c is not better than the tier of t, p, h and w *)
NotWorse(c, t, p, h, w) == Rank(Quality(t, p, h, w)) >= Rank(frame[c].quality)

(* C21: the quality tier is monotone in each input: with the other three *)
(* averages as they are, a higher avg_temp, a higher avg_humidity, a     *)
(* lower avg_rain or a lower avg_wind never gives a worse tier in the    *)
(* order perfect > good > average > poor.                                *)
C21_QualityIsMonotone ==
    \A c \in Calls : Classified(c) =>
        LET f == frame[c]
        IN  /\ \A t \in TempGrid : LE(f.avg_temp, t) =>
                  NotWorse(c, Rat(t, 1), f.avg_rain, f.avg_humidity, f.avg_wind)
            /\ \A h \in HumidityGrid : LE(f.avg_humidity, h) =>
                  NotWorse(c, f.avg_temp, f.avg_rain, Rat(h, 1), f.avg_wind)
            /\ \A r \in RainGrid : GE(f.avg_rain, r) =>
                  NotWorse(c, f.avg_temp, Rat(r, 1), f.avg_humidity, f.avg_wind)
            /\ \A w \in WindGrid : GE(f.avg_wind, w) =>
                  NotWorse(c, f.avg_temp, f.avg_rain, f.avg_humidity, Rat(w, 1))

(* The first tier with more rain than the second tier allows: less rain  *)
(* brings the averages into both tiers                                   *)
C21_Witness ==
    \E c \in Calls :
        /\ Classified(c)
        /\ frame[c].quality = "perfect"
        /\ ~LE(frame[c].avg_rain, Lit(20))
        /\ Quality(frame[c].avg_temp, Rat(Lit(10), 1), frame[c].avg_humidity,
                   frame[c].avg_wind) = "perfect"

====
